---- MODULE Spec2Model ----
(***************************************************************************)
(* CLEAN deconvolution (src/_deconv/deconv.cpp): the Python-facing wrapper *)
(* clean() and the four solver loops Clean<T>::clean_1d_r, clean_2d_r,     *)
(* clean_1d_c and clean_2d_c.                                              *)
(*                                                                         *)
(* Arithmetic is exact: an element of type T is a rational <<n, d>> with   *)
(* d > 0 in lowest terms.  A score is sqrt of a rational; it is kept as    *)
(* its signed radicand x, standing for sgn(x) * sqrt(|x|), which keeps the *)
(* order of the scores and lets the sentinel -1 stand for itself.          *)
(***************************************************************************)
EXTENDS Integers, Sequences, FiniteSets, TLC

VARIABLES
    res, ker, mdl,       \* the three arrays: [nd, dims, type, data]
    gain, maxiter, tol,  \* scalar arguments of clean()
    pc,                  \* "call", "loop", "done" (value returned), "error"
    fn,                  \* the solver the wrapper invoked, or "none"
    err,                 \* the message of the ValueError raised, or "none"
    rv,                  \* the solver's return value
    i,                   \* loop counter of the solver
    q,                   \* normalisation constant (q, or qr/qi)
    max,                 \* running peak value (max, or maxr/maxi)
    argmax,              \* running peak location (argmax, or argmax1/argmax2)
    score, nscore, firstscore,
    \* history variables (observations, not program state)
    res0, ker0, mdl0,    \* the arrays' data at call entry
    pre,                 \* residual, model, argmax and score at the start of the last iteration
    last,                \* how the last iteration ended
    niter,               \* number of loop iterations executed
    sig0,                \* residual + convolve(kernel, model) at call entry, per index
    firstHeld            \* first iteration >= 1 at which the convergence inequality held, or 0

vars == <<res, ker, mdl, gain, maxiter, tol, pc, fn, err, rv, i, q, max, argmax,
          score, nscore, firstscore, res0, ker0, mdl0, pre, last, niter, sig0,
          firstHeld>>

----------------------------------------------------------------------------
(* Exact rational arithmetic for the element type T.                       *)

Abs(x) == IF x < 0 THEN -x ELSE x

RECURSIVE GCD(_, _)
GCD(a, b) == IF b = 0 THEN a ELSE GCD(b, a % b)

\* n/d in lowest terms with a positive denominator, g being gcd(|n|, |d|).
Reduce(n, d, g) ==
    IF d < 0 THEN <<(-n) \div g, (-d) \div g>> ELSE <<n \div g, d \div g>>
Norm(n, d) == Reduce(n, d, GCD(Abs(n), Abs(d)))

Rat(n) == <<n, 1>>
Zero == Rat(0)
One == Rat(1)
RAdd(a, b) == Norm(a[1] * b[2] + b[1] * a[2], a[2] * b[2])
RNeg(a) == <<-a[1], a[2]>>
RSub(a, b) == RAdd(a, RNeg(b))
RMul(a, b) == Norm(a[1] * b[1], a[2] * b[2])
RDiv(a, b) == Norm(a[1] * b[2], a[2] * b[1])
RLt(a, b) == a[1] * b[2] < b[1] * a[2]
RGt(a, b) == RLt(b, a)
RLe(a, b) == ~RLt(b, a)

\* A complex element: separate real and imaginary parts of type T.
Cx(r, im) == [re |-> r, im |-> im]
CZero == Cx(Zero, Zero)
CAdd(a, b) == Cx(RAdd(a.re, b.re), RAdd(a.im, b.im))
CMul(a, b) == Cx(RSub(RMul(a.re, b.re), RMul(a.im, b.im)),
                 RAdd(RMul(a.re, b.im), RMul(a.im, b.re)))

----------------------------------------------------------------------------
(* Arrays.                                                                 *)

RealTypes == {"NPY_FLOAT", "NPY_DOUBLE", "NPY_LONGDOUBLE"}
ComplexTypes == {"NPY_CFLOAT", "NPY_CDOUBLE", "NPY_CLONGDOUBLE"}
SupportedTypes == RealTypes \cup ComplexTypes

RANK(a) == a.nd
DIM(a, k) == a.dims[k + 1]
TYPE(a) == a.type

\* The elements IND1 / IND2 can address: a[n], or a[n1][n2] (with any further
\* index 0, as the strides beyond the second are never used).
Dom1(d) == 0 .. (d - 1)
Dom2(d1, d2) == Dom1(d1) \X Dom1(d2)
Dom(a) == IF RANK(a) = 1 THEN Dom1(DIM(a, 0)) ELSE Dom2(DIM(a, 0), DIM(a, 1))

----------------------------------------------------------------------------
(* Scores and the two stop tests, shared by the four loops.                *)

\* sqrt(x) - sqrt(y) < t * sqrt(f), for x > y >= 0, f > 0, t >= 0, decided exactly:
\* x < y + t^2 f + 2 t sqrt(y f).
SqrtDiffLt(x, y, f, t) ==
    LET tt == RMul(t, t)
        d == RSub(RSub(x, y), RMul(tt, f))
    IN  IF RLt(d, Zero) THEN TRUE
        ELSE RLt(RMul(d, d), RMul(Rat(4), RMul(tt, RMul(y, f))))

\* (score - nscore) / firstscore < tol on signed radicands (tol >= 0).  A zero
\* firstscore divides by zero: +inf or NaN compare false, -inf compares true.
RatioLt(s, n, f, t) ==
    IF f = Zero THEN RLt(s, n)
    ELSE IF RLt(s, n) THEN TRUE
    ELSE IF s = n THEN RGt(t, Zero)
    ELSE SqrtDiffLt(s, n, f, t)

\* if (score > 0 && nscore > score)
DivergedNoGuard(s, n) == RGt(n, s)
Diverged(s, n) == RGt(s, Zero) /\ RGt(n, s)

\* else if (score > 0 && (score - nscore) / firstscore < tol)
ConvergedNoGuard(s, n, f, t) == RatioLt(s, n, f, t)
Converged(s, n, f, t) == RGt(s, Zero) /\ RatioLt(s, n, f, t)

\* if (firstscore < 0) firstscore = nscore;
FirstScore(f, n) == IF RLt(f, Zero) THEN n ELSE f

\* History: the first iteration index >= 1 at which the inequality held.
FirstHeld(h, it, s, n, f, t) ==
    IF h = 0 /\ it >= 1 /\ RatioLt(s, n, f, t) THEN it ELSE h

\* wrap_n = (n + argmax) % dim
WrapNoShift(n, a, dim) == n % dim
Wrap(n, a, dim) == (n + a) % dim

----------------------------------------------------------------------------
(* The loop body's bookkeeping after one element of the residual is        *)
(* updated: nscore += mval; if (mval > mmax) { nargmax, max, mmax }.       *)

Track(acc, w, val, mval) ==
    [res |-> [acc.res EXCEPT ![w] = val],
     nscore |-> RAdd(acc.nscore, mval),
     nargmax |-> IF RGt(mval, acc.mmax) THEN w ELSE acc.nargmax,
     max |-> IF RGt(mval, acc.mmax) THEN val ELSE acc.max,
     mmax |-> IF RGt(mval, acc.mmax) THEN mval ELSE acc.mmax]

\* mval = val * val
TrackR(acc, w, val) == Track(acc, w, val, RMul(val, val))

\* mval = valr * valr + vali * vali
SqMod(x) == RAdd(RMul(x.re, x.re), RMul(x.im, x.im))
TrackC(acc, w, val) == Track(acc, w, val, SqMod(val))

\* if (mval > mq) { mq = mval; q = val; }
PeakOf(acc, val, mval) == IF RGt(mval, acc.mq) THEN [mq |-> mval, q |-> val] ELSE acc

\* ker[n] * step, as the code spells the complex product.
KerStep(k, stepr, stepi) ==
    Cx(RSub(RMul(k.re, stepr), RMul(k.im, stepi)),
       RAdd(RMul(k.re, stepi), RMul(k.im, stepr)))

CSubFrom(x, d) == Cx(RSub(x.re, d.re), RSub(x.im, d.im))
CAddTo(x, d) == Cx(RAdd(x.re, d.re), RAdd(x.im, d.im))

\* stepr = gain * (maxr * qr - maxi * qi); stepi = gain * (maxr * qi + maxi * qr)
StepC(g, m, qq) ==
    Cx(RMul(g, RSub(RMul(m.re, qq.re), RMul(m.im, qq.im))),
       RMul(g, RAdd(RMul(m.re, qq.im), RMul(m.im, qq.re))))

\* qr /= mq; qi = -qi / mq
ConjOverMq_NoConj(pk) == Cx(RDiv(pk.q.re, pk.mq), RDiv(pk.q.im, pk.mq))
ConjOverMq(pk) == Cx(RDiv(pk.q.re, pk.mq), RDiv(RNeg(pk.q.im), pk.mq))

\* The nested loops over n1, n2 are walked by p = n1 * dim2 + n2.
N1(p, dim2) == p \div dim2
N2(p, dim2) == p % dim2
Wrap2(p, am, dim1, dim2) ==
    <<Wrap(N1(p, dim2), am[1], dim1), Wrap(N2(p, dim2), am[2], dim2)>>

----------------------------------------------------------------------------
(* Clean<T>::clean_1d_r                                                    *)

\* Compute gain/phase of kernel: the first element of largest square.
RECURSIVE Peak_1d_r(_, _, _, _)
Peak_1d_r(kd, dim, n, acc) ==
    IF n >= dim THEN acc
    ELSE Peak_1d_r(kd, dim, n + 1, PeakOf(acc, kd[n], RMul(kd[n], kd[n])))

\* q = 1/q
Q_1d_r(kd, dim) == RDiv(One, Peak_1d_r(kd, dim, 0, [mq |-> Zero, q |-> Zero]).q)

\* Take next step and compute score.
RECURSIVE Pass_1d_r(_, _, _, _, _, _)
Pass_1d_r(kd, dim, am, step, n, acc) ==
    IF n >= dim THEN acc
    ELSE Pass_1d_r(kd, dim, am, step, n + 1,
             TrackR(acc, Wrap(n, am, dim),
                    RSub(acc.res[Wrap(n, am, dim)], RMul(kd[n], step))))

\* We've diverged: undo last step.
RECURSIVE Undo_1d_r(_, _, _, _, _, _)
Undo_1d_r(rd, kd, dim, am, step, n) ==
    IF n >= dim THEN rd
    ELSE Undo_1d_r([rd EXCEPT ![Wrap(n, am, dim)] = RAdd(@, RMul(kd[n], step))],
                   kd, dim, am, step, n + 1)

\* One pass of the for loop.  step, the pass and nscore are bound once each.
clean_1d_r ==
    /\ pc = "loop" /\ fn = "clean_1d_r" /\ i < maxiter
    /\ \E step \in {RMul(RMul(gain, max), q)} :
       \E p \in {Pass_1d_r(ker.data, DIM(res, 0), argmax, step, 0,
                          [res |-> res.data, nscore |-> Zero, nargmax |-> argmax,
                           max |-> max, mmax |-> Rat(-1)])} :
       \E ns \in {RDiv(p.nscore, Rat(DIM(res, 0)))} :
       \E fs \in {FirstScore(firstscore, ns)} :
       LET dim == DIM(res, 0)
           md == [mdl.data EXCEPT ![argmax] = RAdd(@, step)]
       IN  /\ nscore' = ns
           /\ firstscore' = fs
           /\ max' = p.max
           /\ pre' = [res |-> res.data, mdl |-> mdl.data, argmax |-> argmax, score |-> score]
           /\ niter' = niter + 1
           /\ firstHeld' = FirstHeld(firstHeld, i, score, ns, fs, tol)
           /\ IF Diverged(score, ns) THEN
                  /\ mdl' = [mdl EXCEPT !.data = [md EXCEPT ![argmax] = RSub(@, step)]]
                  /\ res' = [res EXCEPT !.data =
                                Undo_1d_r(p.res, ker.data, dim, argmax, step, 0)]
                  /\ rv' = -i /\ pc' = "done" /\ last' = "diverged"
                  /\ UNCHANGED <<i, score, argmax>>
              ELSE IF Converged(score, ns, fs, tol) THEN
                  /\ mdl' = [mdl EXCEPT !.data = md]
                  /\ res' = [res EXCEPT !.data = p.res]
                  /\ rv' = i /\ pc' = "done" /\ last' = "converged"
                  /\ UNCHANGED <<i, score, argmax>>
              ELSE
                  /\ mdl' = [mdl EXCEPT !.data = md]
                  /\ res' = [res EXCEPT !.data = p.res]
                  /\ score' = ns /\ argmax' = p.nargmax /\ i' = i + 1
                  /\ last' = "commit"
                  /\ UNCHANGED <<rv, pc>>
    /\ UNCHANGED <<ker, gain, maxiter, tol, fn, err, q, res0, ker0, mdl0, sig0>>

----------------------------------------------------------------------------
(* Clean<T>::clean_2d_r                                                    *)

RECURSIVE Peak_2d_r(_, _, _, _, _)
Peak_2d_r(kd, dim1, dim2, p, acc) ==
    IF p >= dim1 * dim2 THEN acc
    ELSE Peak_2d_r(kd, dim1, dim2, p + 1,
                   PeakOf(acc, kd[<<N1(p, dim2), N2(p, dim2)>>],
                          RMul(kd[<<N1(p, dim2), N2(p, dim2)>>],
                               kd[<<N1(p, dim2), N2(p, dim2)>>])))

Q_2d_r(kd, dim1, dim2) ==
    RDiv(One, Peak_2d_r(kd, dim1, dim2, 0, [mq |-> Zero, q |-> Zero]).q)

RECURSIVE Pass_2d_r(_, _, _, _, _, _, _)
Pass_2d_r(kd, dim1, dim2, am, step, p, acc) ==
    IF p >= dim1 * dim2 THEN acc
    ELSE Pass_2d_r(kd, dim1, dim2, am, step, p + 1,
             TrackR(acc, Wrap2(p, am, dim1, dim2),
                    RSub(acc.res[Wrap2(p, am, dim1, dim2)],
                         RMul(kd[<<N1(p, dim2), N2(p, dim2)>>], step))))

RECURSIVE Undo_2d_r(_, _, _, _, _, _, _)
Undo_2d_r(rd, kd, dim1, dim2, am, step, p) ==
    IF p >= dim1 * dim2 THEN rd
    ELSE Undo_2d_r([rd EXCEPT ![Wrap2(p, am, dim1, dim2)] =
                       RAdd(@, RMul(kd[<<N1(p, dim2), N2(p, dim2)>>], step))],
                   kd, dim1, dim2, am, step, p + 1)

\* One pass of the for loop.  step, the pass and nscore are bound once each.
clean_2d_r ==
    /\ pc = "loop" /\ fn = "clean_2d_r" /\ i < maxiter
    /\ \E step \in {RMul(RMul(gain, max), q)} :
       \E p \in {Pass_2d_r(ker.data, DIM(res, 0), DIM(res, 1), argmax, step, 0,
                          [res |-> res.data, nscore |-> Zero, nargmax |-> argmax,
                           max |-> max, mmax |-> Rat(-1)])} :
       \E ns \in {RDiv(p.nscore, Rat(DIM(res, 0) * DIM(res, 1)))} :
       \E fs \in {FirstScore(firstscore, ns)} :
       LET dim1 == DIM(res, 0)
           dim2 == DIM(res, 1)
           md == [mdl.data EXCEPT ![argmax] = RAdd(@, step)]
       IN  /\ nscore' = ns
           /\ firstscore' = fs
           /\ max' = p.max
           /\ pre' = [res |-> res.data, mdl |-> mdl.data, argmax |-> argmax, score |-> score]
           /\ niter' = niter + 1
           /\ firstHeld' = FirstHeld(firstHeld, i, score, ns, fs, tol)
           /\ IF Diverged(score, ns) THEN
                  /\ mdl' = [mdl EXCEPT !.data = [md EXCEPT ![argmax] = RSub(@, step)]]
                  /\ res' = [res EXCEPT !.data =
                                Undo_2d_r(p.res, ker.data, dim1, dim2, argmax, step, 0)]
                  /\ rv' = -i /\ pc' = "done" /\ last' = "diverged"
                  /\ UNCHANGED <<i, score, argmax>>
              ELSE IF Converged(score, ns, fs, tol) THEN
                  /\ mdl' = [mdl EXCEPT !.data = md]
                  /\ res' = [res EXCEPT !.data = p.res]
                  /\ rv' = i /\ pc' = "done" /\ last' = "converged"
                  /\ UNCHANGED <<i, score, argmax>>
              ELSE
                  /\ mdl' = [mdl EXCEPT !.data = md]
                  /\ res' = [res EXCEPT !.data = p.res]
                  /\ score' = ns /\ argmax' = p.nargmax /\ i' = i + 1
                  /\ last' = "commit"
                  /\ UNCHANGED <<rv, pc>>
    /\ UNCHANGED <<ker, gain, maxiter, tol, fn, err, q, res0, ker0, mdl0, sig0>>

----------------------------------------------------------------------------
(* Clean<T>::clean_1d_c                                                    *)

RECURSIVE Peak_1d_c(_, _, _, _)
Peak_1d_c(kd, dim, n, acc) ==
    IF n >= dim THEN acc
    ELSE Peak_1d_c(kd, dim, n + 1, PeakOf(acc, kd[n], SqMod(kd[n])))

Q_1d_c(kd, dim) == ConjOverMq(Peak_1d_c(kd, dim, 0, [mq |-> Zero, q |-> CZero]))

RECURSIVE Pass_1d_c(_, _, _, _, _, _)
Pass_1d_c(kd, dim, am, step, n, acc) ==
    IF n >= dim THEN acc
    ELSE Pass_1d_c(kd, dim, am, step, n + 1,
             TrackC(acc, Wrap(n, am, dim),
                    CSubFrom(acc.res[Wrap(n, am, dim)],
                             KerStep(kd[n], step.re, step.im))))

RECURSIVE Undo_1d_c_SignSlip(_, _, _, _, _, _)
Undo_1d_c_SignSlip(rd, kd, dim, am, step, n) ==
    IF n >= dim THEN rd
    ELSE Undo_1d_c_SignSlip(
             [rd EXCEPT ![Wrap(n, am, dim)] =
                 CAddTo(@, Cx(RAdd(RMul(kd[n].re, step.re), RMul(kd[n].im, step.im)),
                              RAdd(RMul(kd[n].re, step.im), RMul(kd[n].im, step.re))))],
             kd, dim, am, step, n + 1)

RECURSIVE Undo_1d_c(_, _, _, _, _, _)
Undo_1d_c(rd, kd, dim, am, step, n) ==
    IF n >= dim THEN rd
    ELSE Undo_1d_c([rd EXCEPT ![Wrap(n, am, dim)] =
                       CAddTo(@, KerStep(kd[n], step.re, step.im))],
                   kd, dim, am, step, n + 1)

\* One pass of the for loop.  step, the pass and nscore are bound once each.
clean_1d_c ==
    /\ pc = "loop" /\ fn = "clean_1d_c" /\ i < maxiter
    /\ \E step \in {StepC(gain, max, q)} :
       \E p \in {Pass_1d_c(ker.data, DIM(res, 0), argmax, step, 0,
                          [res |-> res.data, nscore |-> Zero, nargmax |-> argmax,
                           max |-> max, mmax |-> Rat(-1)])} :
       \E ns \in {RDiv(p.nscore, Rat(DIM(res, 0)))} :
       \E fs \in {FirstScore(firstscore, ns)} :
       LET dim == DIM(res, 0)
           md == [mdl.data EXCEPT ![argmax] = CAddTo(@, step)]
       IN  /\ nscore' = ns
           /\ firstscore' = fs
           /\ max' = p.max
           /\ pre' = [res |-> res.data, mdl |-> mdl.data, argmax |-> argmax, score |-> score]
           /\ niter' = niter + 1
           /\ firstHeld' = FirstHeld(firstHeld, i, score, ns, fs, tol)
           /\ IF Diverged(score, ns) THEN
                  /\ mdl' = [mdl EXCEPT !.data = [md EXCEPT ![argmax] = CSubFrom(@, step)]]
                  /\ res' = [res EXCEPT !.data =
                                Undo_1d_c(p.res, ker.data, dim, argmax, step, 0)]
                  /\ rv' = -i /\ pc' = "done" /\ last' = "diverged"
                  /\ UNCHANGED <<i, score, argmax>>
              ELSE IF Converged(score, ns, fs, tol) THEN
                  /\ mdl' = [mdl EXCEPT !.data = md]
                  /\ res' = [res EXCEPT !.data = p.res]
                  /\ rv' = i /\ pc' = "done" /\ last' = "converged"
                  /\ UNCHANGED <<i, score, argmax>>
              ELSE
                  /\ mdl' = [mdl EXCEPT !.data = md]
                  /\ res' = [res EXCEPT !.data = p.res]
                  /\ score' = ns /\ argmax' = p.nargmax /\ i' = i + 1
                  /\ last' = "commit"
                  /\ UNCHANGED <<rv, pc>>
    /\ UNCHANGED <<ker, gain, maxiter, tol, fn, err, q, res0, ker0, mdl0, sig0>>

----------------------------------------------------------------------------
(* Clean<T>::clean_2d_c.  Its divergence branch undoes the step but has no *)
(* return (the "return -i" sits, unreachable, after "return i" in the      *)
(* convergence branch), so control falls through to the commit of score    *)
(* and argmax and the loop goes on.                                        *)

RECURSIVE Peak_2d_c(_, _, _, _, _)
Peak_2d_c(kd, dim1, dim2, p, acc) ==
    IF p >= dim1 * dim2 THEN acc
    ELSE Peak_2d_c(kd, dim1, dim2, p + 1,
                   PeakOf(acc, kd[<<N1(p, dim2), N2(p, dim2)>>],
                          SqMod(kd[<<N1(p, dim2), N2(p, dim2)>>])))

Q_2d_c(kd, dim1, dim2) ==
    ConjOverMq(Peak_2d_c(kd, dim1, dim2, 0, [mq |-> Zero, q |-> CZero]))

RECURSIVE Pass_2d_c(_, _, _, _, _, _, _)
Pass_2d_c(kd, dim1, dim2, am, step, p, acc) ==
    IF p >= dim1 * dim2 THEN acc
    ELSE Pass_2d_c(kd, dim1, dim2, am, step, p + 1,
             TrackC(acc, Wrap2(p, am, dim1, dim2),
                    CSubFrom(acc.res[Wrap2(p, am, dim1, dim2)],
                             KerStep(kd[<<N1(p, dim2), N2(p, dim2)>>],
                                     step.re, step.im))))

RECURSIVE Undo_2d_c(_, _, _, _, _, _, _)
Undo_2d_c(rd, kd, dim1, dim2, am, step, p) ==
    IF p >= dim1 * dim2 THEN rd
    ELSE Undo_2d_c([rd EXCEPT ![Wrap2(p, am, dim1, dim2)] =
                       CAddTo(@, KerStep(kd[<<N1(p, dim2), N2(p, dim2)>>],
                                         step.re, step.im))],
                   kd, dim1, dim2, am, step, p + 1)

\* One pass of the for loop.  step, the pass and nscore are bound once each.
clean_2d_c ==
    /\ pc = "loop" /\ fn = "clean_2d_c" /\ i < maxiter
    /\ \E step \in {StepC(gain, max, q)} :
       \E p \in {Pass_2d_c(ker.data, DIM(res, 0), DIM(res, 1), argmax, step, 0,
                          [res |-> res.data, nscore |-> Zero, nargmax |-> argmax,
                           max |-> max, mmax |-> Rat(-1)])} :
       \E ns \in {RDiv(p.nscore, Rat(DIM(res, 0) * DIM(res, 1)))} :
       \E fs \in {FirstScore(firstscore, ns)} :
       LET dim1 == DIM(res, 0)
           dim2 == DIM(res, 1)
           md == [mdl.data EXCEPT ![argmax] = CAddTo(@, step)]
       IN  /\ nscore' = ns
           /\ firstscore' = fs
           /\ max' = p.max
           /\ pre' = [res |-> res.data, mdl |-> mdl.data, argmax |-> argmax, score |-> score]
           /\ niter' = niter + 1
           /\ firstHeld' = FirstHeld(firstHeld, i, score, ns, fs, tol)
           /\ IF Diverged(score, ns) THEN
                  /\ mdl' = [mdl EXCEPT !.data = [md EXCEPT ![argmax] = CSubFrom(@, step)]]
                  /\ res' = [res EXCEPT !.data =
                                Undo_2d_c(p.res, ker.data, dim1, dim2, argmax, step, 0)]
                  /\ score' = ns /\ argmax' = p.nargmax /\ i' = i + 1
                  /\ last' = "diverged"
                  /\ UNCHANGED <<rv, pc>>
              ELSE IF Converged(score, ns, fs, tol) THEN
                  /\ mdl' = [mdl EXCEPT !.data = md]
                  /\ res' = [res EXCEPT !.data = p.res]
                  /\ rv' = i /\ pc' = "done" /\ last' = "converged"
                  /\ UNCHANGED <<i, score, argmax>>
              ELSE
                  /\ mdl' = [mdl EXCEPT !.data = md]
                  /\ res' = [res EXCEPT !.data = p.res]
                  /\ score' = ns /\ argmax' = p.nargmax /\ i' = i + 1
                  /\ last' = "commit"
                  /\ UNCHANGED <<rv, pc>>
    /\ UNCHANGED <<ker, gain, maxiter, tol, fn, err, q, res0, ker0, mdl0, sig0>>

\* return maxiter; after the for loop of any of the four solvers
LoopExit ==
    /\ pc = "loop" /\ i >= maxiter
    /\ rv' = maxiter /\ pc' = "done"
    /\ UNCHANGED <<res, ker, mdl, gain, maxiter, tol, fn, err, i, q, max, argmax,
                   score, nscore, firstscore, res0, ker0, mdl0, pre, last, niter,
                   sig0, firstHeld>>

----------------------------------------------------------------------------
(* Quantities the properties are stated in, computed from the buffers and  *)
(* not by the loops.                                                       *)

Started == fn # "none"
Is1d(f) == f \in {"clean_1d_r", "clean_1d_c"}
IsComplex(f) == f \in {"clean_1d_c", "clean_2d_c"}
ZeroOf(f) == IF IsComplex(f) THEN CZero ELSE Zero
Idx(f) == IF Is1d(f) THEN Dom1(DIM(res, 0)) ELSE Dom2(DIM(res, 0), DIM(res, 1))

\* Squared magnitude, product and sum of elements of the solver's kind.
Sq(f, x) == IF IsComplex(f) THEN RAdd(RMul(x.re, x.re), RMul(x.im, x.im)) ELSE RMul(x, x)
Prod(f, x, y) == IF IsComplex(f) THEN CMul(x, y) ELSE RMul(x, y)
Plus(f, x, y) == IF IsComplex(f) THEN CAdd(x, y) ELSE RAdd(x, y)

\* The p-th index of the solver's index set, and the number of indices.
At(f, p) == IF Is1d(f) THEN p ELSE <<p \div DIM(res, 1), p % DIM(res, 1)>>
Count(f) == IF Is1d(f) THEN DIM(res, 0) ELSE DIM(res, 0) * DIM(res, 1)

RECURSIVE SumSq(_, _, _)
SumSq(f, data, p) ==
    IF p >= Count(f) THEN Zero
    ELSE RAdd(Sq(f, data[At(f, p)]), SumSq(f, data, p + 1))

\* The radicand of the RMS of a residual buffer.
MeanSq(f, data) == RDiv(SumSq(f, data, 0), Rat(Count(f)))

\* (t - a) mod dim, per axis
Shift(f, t, a) ==
    IF Is1d(f) THEN (t - a + DIM(res, 0)) % DIM(res, 0)
    ELSE <<(t[1] - a[1] + DIM(res, 0)) % DIM(res, 0),
           (t[2] - a[2] + DIM(res, 1)) % DIM(res, 1)>>

\* convolve(kernel, model)[t] = sum over a of model[a] * kernel[(t - a) mod dim]
RECURSIVE ConvAt(_, _, _, _, _)
ConvAt(f, kd, md, t, p) ==
    IF p >= Count(f) THEN ZeroOf(f)
    ELSE Plus(f, Prod(f, md[At(f, p)], kd[Shift(f, t, At(f, p))]),
              ConvAt(f, kd, md, t, p + 1))

Signal(f, rd, kd, md, t) == Plus(f, rd[t], ConvAt(f, kd, md, t, 0))

\* Scan order of the input: ascending n, or ascending n1 then n2.
Before(f, a, b) ==
    IF Is1d(f) THEN a < b ELSE a[1] < b[1] \/ (a[1] = b[1] /\ a[2] < b[2])

\* The first element of maximum squared magnitude.
FirstPeak(f, data) ==
    CHOOSE t \in Idx(f) :
        /\ \A u \in Idx(f) : RLe(Sq(f, data[u]), Sq(f, data[t]))
        /\ \A u \in Idx(f) : Before(f, u, t) => RLt(Sq(f, data[u]), Sq(f, data[t]))

\* Exactly one nonzero element in the kernel; that element at the origin.
SingleImpulse(f) == Cardinality({t \in Idx(f) : ker.data[t] # ZeroOf(f)}) = 1
ImpulseAtOrigin(f) ==
    /\ SingleImpulse(f)
    /\ ker.data[IF Is1d(f) THEN 0 ELSE <<0, 0>>] # ZeroOf(f)

\* The wrapper's documented precondition on the three arrays.
ValidCall ==
    /\ RANK(res) \in {1, 2}
    /\ RANK(ker) = RANK(res) /\ RANK(mdl) = RANK(res)
    /\ ker.dims = res.dims /\ mdl.dims = res.dims
    /\ TYPE(ker) = TYPE(res) /\ TYPE(mdl) = TYPE(res)
    /\ TYPE(res) \in SupportedTypes

----------------------------------------------------------------------------
(* The wrapper clean(): sanity checks, dispatch on the element type, and   *)
(* the start of the solver it invokes (its locals and its kernel scan).    *)

\* The CHK_ARRAY_RANK / CHK_ARRAY_DIM chain; "none" when no check fails.
\* A residual of rank other than 1 or 2 takes neither branch: nothing is checked.
SanityCheck(r, k, m) ==
    IF RANK(r) = 1 THEN
        IF RANK(k) # 1 THEN "rank(ker) != 1"
        ELSE IF RANK(m) # 1 THEN "rank(mdl) != 1"
        ELSE IF DIM(k, 0) # DIM(r, 0) THEN "dim(ker) != dim1"
        ELSE IF DIM(m, 0) # DIM(r, 0) THEN "dim(mdl) != dim1"
        ELSE "none"
    ELSE IF RANK(r) = 2 THEN
        IF RANK(k) # 2 THEN "rank(ker) != 2"
        ELSE IF RANK(m) # 2 THEN "rank(mdl) != 2"
        ELSE IF DIM(k, 0) # DIM(r, 0) THEN "dim(ker) != dim1"
        ELSE IF DIM(m, 0) # DIM(r, 0) THEN "dim(mdl) != dim1"
        ELSE IF DIM(k, 1) # DIM(r, 1) THEN "dim(ker) != dim2"
        ELSE IF DIM(m, 1) # DIM(r, 1) THEN "dim(mdl) != dim2"
        ELSE "none"
    ELSE "none"

\* int rank=0, set to 1 or 2 by the branch taken
RankOf(r) == IF RANK(r) = 1 THEN 1 ELSE IF RANK(r) = 2 THEN 2 ELSE 0

\* if (TYPE(res) != TYPE(ker) || TYPE(res) != TYPE(mdl))
TypesMatch(r, k, m) == TYPE(r) = TYPE(k) /\ TYPE(r) = TYPE(m)

\* The if / else-if chain on TYPE(res); within it "if (rank == 1) ... else ...".
Dispatch(r) ==
    IF TYPE(r) \in RealTypes THEN
        IF RankOf(r) = 1 THEN "clean_1d_r" ELSE "clean_2d_r"
    ELSE IF TYPE(r) \in ComplexTypes THEN
        IF RankOf(r) = 1 THEN "clean_1d_c" ELSE "clean_2d_c"
    ELSE "none"

\* The normalisation constant the invoked solver computes before its loop.
KernelQ(f, r, k) ==
    IF f = "clean_1d_r" THEN Q_1d_r(k.data, DIM(r, 0))
    ELSE IF f = "clean_2d_r" THEN Q_2d_r(k.data, DIM(r, 0), DIM(r, 1))
    ELSE IF f = "clean_1d_c" THEN Q_1d_c(k.data, DIM(r, 0))
    ELSE Q_2d_c(k.data, DIM(r, 0), DIM(r, 1))

clean ==
    /\ pc = "call"
    /\ LET chk == SanityCheck(res, ker, mdl)
           f == Dispatch(res)
       IN  IF chk # "none" THEN
               /\ pc' = "error" /\ err' = chk
               /\ UNCHANGED <<fn, q, max, argmax, sig0>>
           ELSE IF ~TypesMatch(res, ker, mdl) THEN
               /\ pc' = "error" /\ err' = "array types must match"
               /\ UNCHANGED <<fn, q, max, argmax, sig0>>
           ELSE IF f = "none" THEN
               /\ pc' = "error" /\ err' = "Unsupported data type."
               /\ UNCHANGED <<fn, q, max, argmax, sig0>>
           ELSE
               /\ pc' = "loop" /\ fn' = f
               /\ q' = KernelQ(f, res, ker)
               /\ max' = IF IsComplex(f) THEN CZero ELSE Zero
               /\ argmax' = IF Is1d(f) THEN 0 ELSE <<0, 0>>
               /\ sig0' = [t \in Idx(f) |-> Signal(f, res.data, ker.data, mdl.data, t)]
               /\ UNCHANGED err
    /\ UNCHANGED <<res, ker, mdl, gain, maxiter, tol, rv, i, score, nscore,
                   firstscore, res0, ker0, mdl0, pre, last, niter, firstHeld>>

----------------------------------------------------------------------------
(* The calls explored.                                                     *)

MaxIter == 3

Gains == {<<1, 2>>, <<1, 1>>}      \* gain in (0, 1]
Tols == {<<0, 1>>, <<1, 2>>}       \* tol >= 0

\* <<gain, tol, maxiter>>: every gain and tol with the largest budget, and
\* every smaller budget with gain 1 and tol 1/2.
Scalars ==
    {<<g, tl, MaxIter>> : g \in Gains, tl \in Tols}
        \cup {<<<<1, 1>>, <<1, 2>>, mi>> : mi \in 1 .. MaxIter}

\* Element values of the inputs: integers, and Gaussian integers <<re, im>>.
KerValsR == {-1, 0, 2}
KerValsC == {<<0, 0>>, <<0, -1>>, <<1, 1>>}
ResVals1R == {-1, 0, 2}
ResVals2R == {0, 2}
ResVals1C == {<<0, 0>>, <<1, 0>>, <<-1, 1>>}
ResVals2C == {<<0, 0>>, <<-1, 1>>}
MdlFills == {1}
KerVals(d) == IF d.type \in ComplexTypes THEN KerValsC ELSE KerValsR
ResVals(d) ==
    IF d.type \in ComplexTypes
    THEN IF d.nd = 1 THEN ResVals1C ELSE ResVals2C
    ELSE IF d.nd = 1 THEN ResVals1R ELSE ResVals2R

Shapes == {<<3>>, <<2>>, <<2, 2>>, <<2, 2, 1>>}
Types == SupportedTypes \cup {"NPY_INT"}

Desc(shape, type) == [nd |-> Len(shape), dims |-> shape, type |-> type]
Descs == {Desc(sh, ty) : sh \in Shapes, ty \in Types}
Arr(d, data) == [nd |-> d.nd, dims |-> d.dims, type |-> d.type, data |-> data]

RElem(v) == Rat(v)
CElem(v) == Cx(Rat(v[1]), Rat(v[2]))
Elem(type, v) == IF type \in ComplexTypes THEN Cx(Rat(v), Zero) ELSE Rat(v)
Origin(d) == IF d.nd = 1 THEN 0 ELSE <<0, 0>>
Corner(d) == IF d.nd = 1 THEN d.dims[1] - 1 ELSE <<d.dims[1] - 1, d.dims[2] - 1>>

\* All inputs over the value sets, for equal descriptors of one type per kind.
FullDescs == {Desc(<<3>>, "NPY_DOUBLE"), Desc(<<2, 2>>, "NPY_DOUBLE"),
              Desc(<<3>>, "NPY_CDOUBLE"), Desc(<<2, 2>>, "NPY_CDOUBLE")}

\* An input value as an element of the array's type.
Val(d, v) == IF d.type \in ComplexTypes THEN CElem(v) ELSE RElem(v)
NoVal(d) == IF d.type \in ComplexTypes THEN <<0, 0>> ELSE 0

FullCall(d, rg, kg, mf, g, mi, tl) ==
    [res |-> Arr(d, [t \in Dom(d) |-> Val(d, rg[t])]),
     ker |-> Arr(d, [t \in Dom(d) |-> Val(d, kg[t])]),
     mdl |-> Arr(d, [t \in Dom(d) |-> Elem(d.type, mf)]),
     gain |-> g, maxiter |-> mi, tol |-> tl]

\* Every combination of descriptors, on one fixed input each: the residual a
\* single 2 in the last corner, the kernel 1 at the origin and `side` elsewhere.
\* A residual of rank 3 reaches the 2-D solver unchecked; only calls whose
\* kernel and model it can then address in bounds are drawn.
InBounds(r, k, m) ==
    r.nd = 3 => /\ k.nd >= 2 /\ m.nd >= 2
                /\ k.dims[1] = r.dims[1] /\ m.dims[1] = r.dims[1]
                /\ k.dims[2] = r.dims[2] /\ m.dims[2] = r.dims[2]

ProbeCall(r, k, m, side) ==
    [res |-> Arr(r, [t \in Dom(r) |-> Elem(r.type, IF t = Corner(r) THEN 2 ELSE 0)]),
     ker |-> Arr(k, [t \in Dom(k) |-> Elem(k.type, IF t = Origin(k) THEN 1 ELSE side)]),
     mdl |-> Arr(m, [t \in Dom(m) |-> Elem(m.type, 0)]),
     gain |-> <<1, 1>>, maxiter |-> MaxIter, tol |-> <<1, 2>>]

\* Kernel and model descriptors: any shape, of the residual's type or another.
OtherType(ty) == IF ty = "NPY_DOUBLE" THEN "NPY_CDOUBLE" ELSE "NPY_DOUBLE"
DescsFor(r) == {Desc(sh, ty) : sh \in Shapes, ty \in {r.type, OtherType(r.type)}}

Start(c) ==
    /\ res = c.res /\ ker = c.ker /\ mdl = c.mdl
    /\ gain = c.gain /\ maxiter = c.maxiter /\ tol = c.tol
    /\ pc = "call" /\ fn = "none" /\ err = "none" /\ rv = 0
    /\ i = 0 /\ q = Zero /\ max = Zero /\ argmax = 0
    /\ score = Rat(-1) /\ nscore = Zero /\ firstscore = Rat(-1)
    /\ res0 = c.res.data /\ ker0 = c.ker.data /\ mdl0 = c.mdl.data
    /\ pre = [res |-> c.res.data, mdl |-> c.mdl.data, argmax |-> 0, score |-> Rat(-1)]
    /\ last = "none" /\ niter = 0 /\ firstHeld = 0 /\ sig0 = <<>>

\* The kernel has a nonzero peak (an all-zero kernel divides by zero).
InitFull ==
    \E d \in FullDescs :
      \E rg \in [Dom(d) -> ResVals(d)], kg \in [Dom(d) -> KerVals(d)],
         mf \in MdlFills, sc \in Scalars :
            /\ kg # [t \in Dom(d) |-> NoVal(d)]
            /\ Start(FullCall(d, rg, kg, mf, sc[1], sc[3], sc[2]))

InitProbe ==
    \E r \in Descs :
      \E k \in DescsFor(r), m \in DescsFor(r), side \in {0, 1} :
            /\ InBounds(r, k, m)
            /\ Start(ProbeCall(r, k, m, side))

Init == InitFull \/ InitProbe

Next ==
    \/ clean
    \/ clean_1d_r
    \/ clean_2d_r
    \/ clean_1d_c
    \/ clean_2d_c
    \/ LoopExit

Spec == Init /\ [][Next]_vars

----------------------------------------------------------------------------
(* Properties.                                                             *)

\* C1: in every variant, an iteration i >= 1 whose nscore exceeds the previous
\* score is undone and the call returns -i at that iteration: the loop does not
\* go on and score and argmax are not advanced.
C1_DivergenceReturns ==
    last = "diverged" =>
        /\ pc = "done" /\ rv = -i /\ i >= 1
        /\ score = pre.score /\ argmax = pre.argmax

\* C2: right after the rollback of a diverging iteration, every element of
\* model and of residual has the value it had at the start of that iteration.
C2_RollbackLaw ==
    last = "diverged" => res.data = pre.res /\ mdl.data = pre.mdl

\* A diverging iteration of the 1-D complex solver placed at a nonzero argmax
\* (wrapped destinations) has been rolled back and returned.
C2_Witness ==
    /\ fn = "clean_1d_c" /\ last = "diverged" /\ pc = "done" /\ rv < 0
    /\ pre.argmax # 0
    /\ \E t \in Idx(fn) : ker.data[t].im # Zero

\* C3: in every state of every solver, for every index t,
\* residual[t] + convolve(kernel, model)[t] has its value at call entry, and
\* kernel is as passed in.
C3_ResidualModelInvariant ==
    Started =>
        /\ ker.data = ker0
        /\ \A t \in Idx(fn) : Signal(fn, res.data, ker.data, mdl.data, t) = sig0[t]

\* A committed iteration has moved a nonzero step from residual to model at a
\* peak away from the origin.
C3_Witness ==
    /\ Started /\ last = "commit" /\ niter >= 2
    /\ pre.argmax # (IF Is1d(fn) THEN 0 ELSE <<0, 0>>)
    /\ mdl.data # pre.mdl /\ res.data # pre.res

\* C4: at the start of every iteration i >= 1 the score variable is the RMS of
\* the residual buffer, and an iteration i >= 1 whose changes are kept leaves the
\* residual RMS no larger than it found it.
C4_ScoreTracksRms ==
    Started =>
        /\ (pc = "loop" /\ i >= 1) => score = MeanSq(fn, res.data)
        /\ (niter >= 2 /\ last \in {"commit", "converged"}) =>
              RLe(MeanSq(fn, res.data), MeanSq(fn, pre.res))

\* C5: a convergence return i has 1 <= i < maxiter, the inequality
\* (score_{i-1} - score_i) / score_1 < tol holds at i, it held at no earlier
\* iteration index, and iteration i's changes are kept.
C5_ConvergenceLaw ==
    (pc = "done" /\ last = "converged") =>
        /\ rv = i /\ rv >= 1 /\ rv < maxiter
        /\ RatioLt(score, nscore, firstscore, tol)
        /\ firstHeld = rv
        /\ nscore = MeanSq(fn, res.data)

C7_BoundaryValidation ==
    (pc # "call" /\ ~ValidCall) =>
        /\ pc = "error" /\ err # "none" /\ fn = "none"
        /\ res.data = res0 /\ mdl.data = mdl0

\* C8 as claimed: with gain 1 and a single-impulse kernel at any index, a kept
\* iteration i >= 1 leaves residual[argmax] = 0, argmax being the peak location
\* the iteration started with.
C8_AsClaimed ==
    (Started /\ gain = One /\ SingleImpulse(fn)
        /\ niter >= 2 /\ last \in {"commit", "converged"}) =>
            res.data[pre.argmax] = ZeroOf(fn)

\* C8 amended: with gain 1 and a single-impulse kernel whose nonzero element is
\* at the origin, every iteration i >= 1 is kept and leaves residual[argmax] = 0.
C8_PeakCancellation ==
    (Started /\ gain = One /\ ImpulseAtOrigin(fn) /\ niter >= 2) =>
        /\ last \in {"commit", "converged"}
        /\ res.data[pre.argmax] = ZeroOf(fn)

\* A nonzero peak away from the origin was cancelled, the impulse not being 1.
C8_Witness ==
    /\ Started /\ gain = One /\ ImpulseAtOrigin(fn) /\ niter >= 2
    /\ pre.res[pre.argmax] # ZeroOf(fn)
    /\ pre.argmax # (IF Is1d(fn) THEN 0 ELSE <<0, 0>>)
    /\ ker.data[IF Is1d(fn) THEN 0 ELSE <<0, 0>>] # (IF IsComplex(fn) THEN Cx(One, Zero) ELSE One)

\* C9: iteration 0 changes no element of model or residual and does not return;
\* it records firstscore = score = RMS of the input residual and the location
\* and value of the input's first element of largest squared magnitude.  A call
\* with maxiter = 1 returns 1 with the buffers as passed in.
C9_ZeroSeed ==
    (Started /\ niter = 1) =>
        /\ i = 1 /\ last = "commit"
        /\ res.data = res0 /\ mdl.data = mdl0
        /\ score = MeanSq(fn, res0) /\ firstscore = score
        /\ argmax = FirstPeak(fn, res0) /\ max = res0[argmax]
        /\ (pc = "done" => maxiter = 1 /\ rv = 1)

\* A call with maxiter = 1 has returned; its input peak is nonzero and not at
\* the origin.
C9_Witness ==
    /\ Started /\ pc = "done" /\ maxiter = 1 /\ niter = 1
    /\ argmax # (IF Is1d(fn) THEN 0 ELSE <<0, 0>>)
    /\ max # ZeroOf(fn)

\* C10: an iteration i >= 1 that is not a divergence and at which
\* (score - nscore) / firstscore < tol returns i; so no such iteration is
\* committed with the loop going on.
C10_ConvergenceResponse ==
    (Started /\ niter >= 2 /\ last = "commit") =>
        ~RatioLt(pre.score, nscore, firstscore, tol)

====
